---- MODULE Spec2Model ----
(***************************************************************************)
(* Model of streamlit_app.py, the Lithuanian Market Product Analyzer.      *)
(*                                                                         *)
(* The program is a Streamlit script: every user interaction re-executes   *)
(* the whole script top to bottom against st.session_state.  The state is *)
(* the session state (discovered_urls, search_history), the widget states  *)
(* (text inputs, the selectbox, the checkboxes keyed url_0, url_1, ...),   *)
(* and the locals of the analysis loop while it is running.                *)
(*                                                                         *)
(* Sequences are 1-based here: the checkbox the source keys f"url_{i}" is  *)
(* entry i + 1 of url_key.                                                 *)
(***************************************************************************)
EXTENDS Integers, Sequences, FiniteSets, TLC

\* ------------------------------------------------------------------------
\* Bounds of the model.
MaxDiscover == 3    \* longest URL list the service returns to one discovery
MaxList == 3        \* longest candidate list (Add URL is not offered beyond)
MaxHistory == 2     \* analysis runs are not started beyond this history length
MaxTextLen == 5     \* longest response text (in tokens) the parser is run on

\* The prompt asks the service for "up to top 20" pages.
TopN == 20

\* ------------------------------------------------------------------------
\* Generic sequence helpers (Python list semantics).

Range(s) == {s[i] : i \in 1..Len(s)}

NoDuplicates(s) == \A i, j \in 1..Len(s) : s[i] = s[j] => i = j

SeqsUpTo(S, n) == UNION {[1..k -> S] : k \in 0..n}

RECURSIVE Flatten(_)
Flatten(ss) == IF ss = <<>> THEN <<>> ELSE Head(ss) \o Flatten(Tail(ss))

\* list.remove(x): deletes the first occurrence of x.
ListRemove(list, x) ==
    LET k == CHOOSE i \in 1..Len(list) :
                 list[i] = x /\ \A j \in 1..(i - 1) : list[j] # x
    IN  SubSeq(list, 1, k - 1) \o SubSeq(list, k + 1, Len(list))

\* ------------------------------------------------------------------------
\* Response text of the extraction request, as a sequence of tokens:
\*   "["  "]"  ","   the JSON punctuation
\*   "a"  "b"        a complete flat JSON object literal {...} without a
\*                   "products" key (two distinguishable ones)
\*   "P"             the opening of an object up to its key:  {"products":
\*   "}"             the brace that closes such an object
\*   "s"             whitespace
\*   "w"             prose: characters that are none of the above
Tokens == {"[", "]", ",", "a", "b", "P", "}", "s", "w"}

OpensBrace(t) == t \in {"a", "b", "P"}     \* token begins with {
ClosesBrace(t) == t \in {"a", "b", "}"}    \* token ends with }

\* first position >= i that holds no whitespace
RECURSIVE SkipWs(_, _)
SkipWs(t, i) == IF i <= Len(t) /\ t[i] = "s" THEN SkipWs(t, i + 1) ELSE i

RECURSIVE SkipWsBack(_, _)
SkipWsBack(t, i) == IF i >= 1 /\ t[i] = "s" THEN SkipWsBack(t, i - 1) ELSE i

\* json.loads, as a recursive-descent recogniser: ValueEnd(t, i) is the
\* position after the JSON value that starts at i (whitespace skipped), or
\* 0 when no value starts there.
RECURSIVE ValueEnd(_, _)
RECURSIVE ElemsEnd(_, _, _)
ValueEnd(t, i) ==
    LET j == SkipWs(t, i) IN
    IF j > Len(t) THEN 0
    ELSE IF t[j] \in {"a", "b"} THEN j + 1
    ELSE IF t[j] = "[" THEN ElemsEnd(t, j + 1, TRUE)
    ELSE IF t[j] = "P" THEN
        LET e == ValueEnd(t, j + 1) IN
        IF e = 0 THEN 0
        ELSE LET k == SkipWs(t, e) IN
             IF k <= Len(t) /\ t[k] = "}" THEN k + 1 ELSE 0
    ELSE 0

ElemsEnd(t, i, first) ==
    LET j == SkipWs(t, i) IN
    IF j > Len(t) THEN 0
    ELSE IF first /\ t[j] = "]" THEN j + 1
    ELSE LET e == ValueEnd(t, j) IN
         IF e = 0 THEN 0
         ELSE LET k == SkipWs(t, e) IN
              IF k > Len(t) THEN 0
              ELSE IF t[k] = "," THEN ElemsEnd(t, k + 1, FALSE)
              ELSE IF t[k] = "]" THEN k + 1
              ELSE 0

\* json.loads(t) succeeds: one value, then nothing but whitespace.
JsonValid(t) ==
    LET e == ValueEnd(t, 1) IN e # 0 /\ SkipWs(t, e) = Len(t) + 1

\* A parsed value is kept as its text without whitespace.
StripWs(t) == SelectSeq(t, LAMBDA x : x # "s")

\* the elements of the array whose "[" is at position i - 1
RECURSIVE Elems(_, _)
Elems(t, i) ==
    LET j == SkipWs(t, i) IN
    IF t[j] = "]" THEN <<>>
    ELSE LET e == ValueEnd(t, j)
             k == SkipWs(t, e)
         IN  <<StripWs(SubSeq(t, j, e - 1))>>
                 \o (IF t[k] = "," THEN Elems(t, k + 1) ELSE <<>>)

\* json.loads(t) for a valid t: the kind of the value, its elements when
\* it is a list, and the value under "products" when it is such an object.
JsonLoads(t) ==
    LET j == SkipWs(t, 1) IN
    IF t[j] = "[" THEN
        [kind |-> "list", items |-> Elems(t, j + 1),
         products_is_list |-> FALSE, products |-> <<>>]
    ELSE IF t[j] = "P" THEN
        LET v == SkipWs(t, j + 1) IN
        [kind |-> "dict_products", items |-> <<>>,
         products_is_list |-> t[v] = "[",
         products |-> IF t[v] = "[" THEN Elems(t, v + 1) ELSE <<>>]
    ELSE [kind |-> "dict", items |-> <<>>,
          products_is_list |-> FALSE, products |-> <<>>]

\* re.search(r'(\[\s*{.*}\s*\]|\{\s*"products"\s*:\s*\[.*\]\s*\})', text,
\* re.DOTALL): the ends of the matches that start at position i.  The first
\* alternative starts at "[", the second at {"products": , so at most one
\* of them applies at a given position.
MatchEnds(t, i) ==
    IF t[i] = "[" THEN
        LET k == SkipWs(t, i + 1) IN
        IF k <= Len(t) /\ OpensBrace(t[k])
        THEN {j \in (k + 1)..Len(t) :
                 /\ t[j] = "]"
                 /\ LET m == SkipWsBack(t, j - 1) IN
                    m >= k /\ ClosesBrace(t[m])}
        ELSE {}
    ELSE IF t[i] = "P" THEN
        LET k == SkipWs(t, i + 1) IN
        IF k <= Len(t) /\ t[k] = "["
        THEN {j \in (k + 2)..Len(t) :
                 /\ t[j] = "}"
                 /\ LET m == SkipWsBack(t, j - 1) IN
                    m > k /\ t[m] = "]"}
        ELSE {}
    ELSE {}

Max(S) == CHOOSE x \in S : \A y \in S : y <= x
Min(S) == CHOOSE x \in S : \A y \in S : x <= y

\* The match re.search returns: leftmost start, and from there the longest
\* (.* is greedy).
ReSearch(t) ==
    LET starts == {i \in 1..Len(t) : MatchEnds(t, i) # {}} IN
    IF starts = {} THEN [found |-> FALSE, text |-> <<>>]
    ELSE LET i == Min(starts) IN
         [found |-> TRUE, text |-> SubSeq(t, i, Max(MatchEnds(t, i)))]

\* The parsing block of analyze_product_prices: the records parsed from
\* the response text, and whether the parse warning was shown.
ParseProductsNoUnwrap(response_text) ==
    LET json_match == ReSearch(response_text)
        json_str == IF json_match.found THEN json_match.text ELSE response_text
    IN  IF ~JsonValid(json_str)
        THEN [products |-> <<>>, warning |-> TRUE]
        ELSE LET products_data == JsonLoads(json_str) IN
             IF products_data.kind = "list"
             THEN [products |-> products_data.items, warning |-> FALSE]
             ELSE [products |-> <<>>, warning |-> FALSE]

ParseProducts(response_text) ==
    LET json_match == ReSearch(response_text)
        json_str == IF json_match.found THEN json_match.text ELSE response_text
    IN  IF ~JsonValid(json_str)
        THEN [products |-> <<>>, warning |-> TRUE]
        ELSE LET products_data == JsonLoads(json_str) IN
             IF products_data.kind = "dict_products"
             THEN IF products_data.products_is_list
                  THEN [products |-> products_data.products, warning |-> FALSE]
                  ELSE [products |-> <<>>, warning |-> FALSE]
             ELSE IF products_data.kind = "list"
             THEN [products |-> products_data.items, warning |-> FALSE]
             ELSE [products |-> <<>>, warning |-> FALSE]

\* ------------------------------------------------------------------------
\* The external AI service.

URLs == {"u1", "u2", "u3"}

\* What client.responses.parse does for a discovery request: it raises
\* (transport, authentication, schema validation), or returns parsed urls.
DiscoveryResponses ==
    {[kind |-> k, urls |-> <<>>] : k \in {"transport", "auth", "schema"}}
        \cup {[kind |-> "ok", urls |-> us] : us \in SeqsUpTo(URLs, MaxDiscover)}

\* What client.chat.completions.create does for an extraction request: it
\* raises, or returns a message whose content is free text.
SampleTexts ==
    { <<"w">>,
      <<"[", "]">>,
      <<"[", "a", ",", "b", "]">>,
      <<"w", "P", "[", "b", "]", "}">> }

ExtractionResponses ==
    {[kind |-> k, text |-> <<>>] : k \in {"transport", "auth"}}
        \cup {[kind |-> "ok", text |-> t] : t \in SampleTexts}

\* discover_product_urls: the try/except around the request.
discover_product_urls_uncaught(resp) ==
    IF resp.kind = "ok"
    THEN [urls |-> resp.urls, messages |-> {}, raised |-> FALSE]
    ELSE [urls |-> <<>>, messages |-> {}, raised |-> TRUE]

discover_product_urls(resp) ==
    IF resp.kind = "ok"
    THEN [urls |-> resp.urls, messages |-> {}, raised |-> FALSE]
    ELSE [urls |-> <<>>, messages |-> {"Error discovering URLs"},
          raised |-> FALSE]

\* analyze_product_prices: the outer try/except around the request and the
\* inner one around the parsing.
analyze_product_prices_uncaught(resp) ==
    IF resp.kind # "ok"
    THEN [products |-> <<>>, messages |-> {}, raised |-> TRUE]
    ELSE LET r == ParseProducts(resp.text) IN
         [products |-> r.products,
          messages |-> IF r.warning THEN {"Could not parse products from URL"}
                       ELSE {},
          raised |-> FALSE]

analyze_product_prices(resp) ==
    IF resp.kind # "ok"
    THEN [products |-> <<>>, messages |-> {"API request failed"},
          raised |-> FALSE]
    ELSE LET r == ParseProducts(resp.text) IN
         [products |-> r.products,
          messages |-> IF r.warning THEN {"Could not parse products from URL"}
                       ELSE {},
          raised |-> FALSE]

\* ------------------------------------------------------------------------
\* The URL curation block of the script.

MaxKeys == IF MaxDiscover > MaxList THEN MaxDiscover ELSE MaxList
Keys == 1..MaxKeys

\* st.checkbox("Include", value=True, key=f"url_{i}") for every position of
\* the list: a checkbox without state yet gets the default, one with state
\* keeps it.
RenderCheckboxes(keys, n) ==
    [i \in Keys |-> IF i <= n /\ keys[i] = "unset" THEN "on" ELSE keys[i]]

\* The URLs whose checkbox is unticked, in list order.
UrlsToRemove(list, keys) ==
    LET F[i \in 0..Len(list)] ==
            IF i = 0 THEN <<>>
            ELSE IF keys[i] = "off" THEN Append(F[i - 1], list[i])
            ELSE F[i - 1]
    IN  F[Len(list)]

\* for url in urls_to_remove: if url in list: list.remove(url)
RECURSIVE RemoveUnchecked(_, _)
RemoveUnchecked(list, rem) ==
    IF rem = <<>> THEN list
    ELSE RemoveUnchecked(IF Head(rem) \in Range(list)
                         THEN ListRemove(list, Head(rem)) ELSE list,
                         Tail(rem))

\* [url for i, url in enumerate(discovered_urls)
\*      if st.session_state.get(f"url_{i}", True)]
ActiveUrls(list, keys) ==
    LET F[i \in 0..Len(list)] ==
            IF i = 0 THEN <<>>
            ELSE IF keys[i] # "off" THEN Append(F[i - 1], list[i])
            ELSE F[i - 1]
    IN  F[Len(list)]

\* The Add URL handler on the list left by the removal.
AddUrl(list, clicked, nu) ==
    IF clicked /\ nu # ""
    THEN IF nu \notin Range(list)
         THEN [urls |-> Append(list, nu), rerun |-> TRUE,
               messages |-> {"Added"}]
         ELSE [urls |-> list, rerun |-> FALSE,
               messages |-> {"already in the list"}]
    ELSE [urls |-> list, rerun |-> FALSE, messages |-> {}]

\* One pass over the curation block.  displayed is the list as drawn (the
\* rows are written before the removal), rendered tells whether the block,
\* and so its widgets, was drawn at all.
CurateOnce(list, keys, add_clicked, nu) ==
    IF list = <<>>
    THEN [urls |-> list, keys |-> keys, displayed |-> <<>>,
          rendered |-> FALSE, rerun |-> FALSE, messages |-> {}]
    ELSE LET keys1 == RenderCheckboxes(keys, Len(list))
             list1 == RemoveUnchecked(list, UrlsToRemove(list, keys1))
             add == AddUrl(list1, add_clicked, nu)
         IN  [urls |-> add.urls, keys |-> keys1, displayed |-> list,
              rendered |-> TRUE, rerun |-> add.rerun,
              messages |-> add.messages]

\* st.experimental_rerun() after an append starts the script over with no
\* button pressed; the messages of the abandoned pass are redrawn away.
Curate(list, keys, add_clicked, nu) ==
    LET c == CurateOnce(list, keys, add_clicked, nu) IN
    IF c.rerun THEN CurateOnce(c.urls, c.keys, FALSE, nu) ELSE c

\* At the end of a script run Streamlit drops the state of every widget the
\* run did not draw: the checkboxes past the drawn rows, and the Add-URL
\* text input when the curation block was skipped.
DropStale(keys, n) == [i \in Keys |-> IF i <= n THEN keys[i] ELSE "unset"]

\* ------------------------------------------------------------------------
\* The analysis loop and the history.

\* if products: all_products.extend(products)
ExtendPrepend(all, products) ==
    IF products # <<>> THEN products \o all ELSE all

Extend(all, products) ==
    IF products # <<>> THEN all \o products ELSE all

\* st.session_state.search_history.append(history_entry)
HistoryOverwrite(history, entry) == <<entry>>

HistoryAppend(history, entry) == Append(history, entry)

\* The end of the handler: a non-empty aggregate is saved and displayed, an
\* empty one is reported.
RecordRunAlways(history, entry) ==
    [history |-> HistoryAppend(history, entry), outcome |-> "results",
     messages |-> {"Analysis complete!"}]

RecordRun(history, entry) ==
    IF entry.results # <<>>
    THEN [history |-> HistoryAppend(history, entry), outcome |-> "results",
          messages |-> {"Analysis complete!"}]
    ELSE [history |-> history, outcome |-> "no_results",
          messages |-> {"Analysis complete!",
                        "No products found matching your specifications."}]

\* ------------------------------------------------------------------------
\* State.

\* time.strftime("%Y-%m-%d %H:%M:%S"): the text of the current time, which
\* nothing in the program reads again but the history view that prints it.
Timestamp == "now"

\* What the user may enter in the query widgets.
Queries ==
    { [category |-> "c1", name |-> "n1", spec |-> "s1", objective |-> "none"],
      [category |-> "c1", name |-> "n2", spec |-> "", objective |-> "kg"] }

VARIABLES
    product_category,      \* text input
    product_name,          \* text input
    tech_spec,             \* text area
    price_calc_objective,  \* selectbox
    new_url,               \* the Add-URL text input
    url_key,               \* url_key[i + 1]: state of the checkbox url_{i}
    discovered_urls,       \* st.session_state.discovered_urls
    search_history,        \* st.session_state.search_history
    displayed,             \* the URL rows as drawn by the last run
    pc,                    \* "idle": waiting for the user; "analyzing"
    active_urls,           \* local of the Analyze handler
    idx,                   \* position of the loop in active_urls
    all_products,          \* local of the Analyze handler
    outcome,               \* what the last run reported about an analysis
    messages,              \* the messages the last run showed
    raised,                \* the last run ended in an uncaught exception
    store,                 \* history variable: the curation store the user
                           \* has described by discover / add / tick / untick
    extracted,             \* history variable: for each request of the
                           \* running analysis, the URL, the service's
                           \* response and what extract returned
    n_saved,               \* history variable: analysis runs that ended
                           \* with a non-empty aggregate
    secrets,               \* st.secrets: "present" when config holds
                           \* openai_api_key, else "absent"
    page,                  \* what the last run drew outside the tabs' forms,
                           \* in the order it was drawn
    results_view,          \* what display_results drew in the last run
    history_view           \* what the history tab drew in the last run

vars == <<product_category, product_name, tech_spec, price_calc_objective,
          new_url, url_key, discovered_urls, search_history, displayed, pc,
          active_urls, idx, all_products, outcome, messages, raised,
          store, extracted, n_saved, secrets, page, results_view,
          history_view>>

query_vars == <<product_category, product_name, tech_spec,
                price_calc_objective>>
loop_vars == <<active_urls, idx, all_products, extracted>>
ghost_curation == <<store>>
render_vars == <<secrets, page, results_view, history_view>>

\* What a run draws before it reads the secrets (lines 16-20), and what a
\* run that finds the key has drawn outside the forms when it ends.
PageHead == <<"title", "description">>
PageFull == PageHead \o <<"tabs", "footer">>

Init ==
    /\ product_category = ""
    /\ product_name = ""
    /\ tech_spec = ""
    /\ price_calc_objective = "none"
    /\ new_url = ""
    /\ url_key = [i \in Keys |-> "unset"]
    /\ discovered_urls = <<>>
    /\ search_history = <<>>
    /\ displayed = <<>>
    /\ pc = "idle"
    /\ active_urls = <<>>
    /\ idx = 1
    /\ all_products = <<>>
    /\ outcome = "none"
    /\ messages = {}
    /\ raised = FALSE
    /\ store = <<>>
    /\ extracted = <<>>
    /\ n_saved = 0
    /\ secrets = "present"
    /\ page = PageFull
    /\ results_view = <<>>
    /\ history_view = <<>>

\* ------------------------------------------------------------------------
\* The curation store as the user has described it (history variable).

StoreUrls == [k \in 1..Len(store) |-> store[k].url]

StoreDiscover(urls) == [k \in 1..Len(urls) |-> [url |-> urls[k], included |-> TRUE]]

StoreAdd(st, u) ==
    IF u \in {st[k].url : k \in 1..Len(st)} THEN st
    ELSE Append(st, [url |-> u, included |-> TRUE])

StoreSetIncluded(st, u, b) ==
    [k \in 1..Len(st) |-> IF st[k].url = u THEN [st[k] EXCEPT !.included = b]
                          ELSE st[k]]

StoreActive(st) ==
    LET inc == SelectSeq(st, LAMBDA e : e.included) IN
    [k \in 1..Len(inc) |-> inc[k].url]

\* ------------------------------------------------------------------------
\* Script runs.  Every user interaction runs the script once, top to bottom.

\* The part of a run that is common to all runs without an analysis: the
\* curation block, then the end of the run.
EndOfRun(list, keys, add_clicked, nu, msgs) ==
    LET c == Curate(list, keys, add_clicked, nu) IN
    /\ discovered_urls' = c.urls
    /\ url_key' = DropStale(c.keys, Len(c.displayed))
    /\ displayed' = c.displayed
    /\ new_url' = IF c.rendered THEN nu ELSE ""
    /\ messages' = msgs \cup c.messages
    /\ pc' = "idle"
    /\ outcome' = "none"
    /\ raised' = FALSE
    /\ active_urls' = <<>>
    /\ idx' = 1
    /\ all_products' = <<>>
    /\ extracted' = <<>>
    /\ UNCHANGED <<search_history, n_saved, render_vars>>

\* The user edits the query widgets.
SetQuery(q) ==
    /\ pc = "idle"
    /\ <<q.category, q.name, q.spec, q.objective>>
           # <<product_category, product_name, tech_spec, price_calc_objective>>
    /\ product_category' = q.category
    /\ product_name' = q.name
    /\ tech_spec' = q.spec
    /\ price_calc_objective' = q.objective
    /\ EndOfRun(discovered_urls, url_key, FALSE, new_url, {})
    /\ UNCHANGED ghost_curation

\* The user presses "Discover Product URLs" (disabled unless category and
\* name are filled in); the service answers resp.
DiscoverEnabled == pc = "idle" /\ product_category # "" /\ product_name # ""

ClickDiscover(resp) ==
    /\ DiscoverEnabled
    /\ LET d == discover_product_urls(resp) IN
       IF d.raised
       THEN /\ raised' = TRUE
            /\ messages' = {"uncaught exception"}
            /\ outcome' = "none"
            /\ displayed' = <<>>
            /\ url_key' = DropStale(url_key, 0)
            /\ new_url' = ""
            /\ UNCHANGED <<discovered_urls, search_history, pc, loop_vars,
                           n_saved, ghost_curation, render_vars>>
       ELSE /\ EndOfRun(d.urls, url_key, FALSE, new_url,
                        d.messages \cup
                          (IF d.urls # <<>> THEN {"Found relevant URLs"}
                           ELSE {"Could not discover any relevant URLs"}))
            /\ store' = StoreDiscover(d.urls)
    /\ UNCHANGED query_vars

\* The user clicks the checkbox drawn in row i.
ToggleCheckbox(i) ==
    /\ pc = "idle"
    /\ i <= Len(displayed)
    /\ LET was_on == url_key[i] = "on"
           keys == [url_key EXCEPT ![i] = IF was_on THEN "off" ELSE "on"]
       IN  /\ EndOfRun(discovered_urls, keys, FALSE, new_url, {})
           /\ store' = StoreSetIncluded(store, displayed[i], ~was_on)
    /\ UNCHANGED query_vars

\* The user types into the Add-URL input.
TypeNewUrl(u) ==
    /\ pc = "idle"
    /\ displayed # <<>>
    /\ u # new_url
    /\ EndOfRun(discovered_urls, url_key, FALSE, u, {})
    /\ UNCHANGED <<query_vars, ghost_curation>>

\* The user presses "Add URL".
ClickAddUrl ==
    /\ pc = "idle"
    /\ displayed # <<>>
    /\ Len(discovered_urls) < MaxList \/ new_url \in Range(discovered_urls)
    /\ EndOfRun(discovered_urls, url_key, TRUE, new_url, {})
    /\ store' = IF new_url # "" THEN StoreAdd(store, new_url) ELSE store
    /\ UNCHANGED query_vars

\* The user presses "Analyze Product Prices": the script runs up to the
\* start of the loop over active_urls.
ClickAnalyze ==
    /\ pc = "idle"
    /\ discovered_urls # <<>>
    /\ Len(search_history) < MaxHistory
    /\ LET c == Curate(discovered_urls, url_key, FALSE, new_url) IN
       IF c.urls = <<>>
       THEN \* the button is not drawn in this run: the click is lost
            EndOfRun(discovered_urls, url_key, FALSE, new_url, {})
       ELSE LET act == ActiveUrls(c.urls, c.keys) IN
            /\ discovered_urls' = c.urls
            /\ url_key' = DropStale(c.keys, Len(c.displayed))
            /\ displayed' = c.displayed
            /\ new_url' = new_url
            /\ active_urls' = act
            /\ idx' = 1
            /\ all_products' = <<>>
            /\ extracted' = <<>>
            /\ raised' = FALSE
            /\ IF act = <<>>
               THEN /\ messages' = {"No URLs selected."}
                    /\ outcome' = "no_urls"
                    /\ pc' = "idle"
               ELSE /\ messages' = {}
                    /\ outcome' = "running"
                    /\ pc' = "analyzing"
            /\ UNCHANGED <<search_history, n_saved, render_vars>>
    /\ UNCHANGED <<query_vars, ghost_curation>>

\* One pass of the loop body: the request for active_urls[idx] is answered.
ExtractStepRetry(resp) ==
    /\ pc = "analyzing"
    /\ idx <= Len(active_urls)
    /\ LET r == analyze_product_prices(resp) IN
       IF r.raised
       THEN /\ raised' = TRUE
            /\ outcome' = "crashed"
            /\ pc' = "idle"
            /\ messages' = messages \cup {"uncaught exception"}
            /\ UNCHANGED <<idx, all_products, extracted>>
       ELSE /\ all_products' = Extend(all_products, r.products)
            /\ extracted' = Append(extracted,
                                   [url |-> active_urls[idx],
                                    response |-> resp,
                                    products |-> r.products])
            /\ idx' = IF resp.kind = "ok" THEN idx + 1 ELSE idx
            /\ messages' = messages \cup r.messages
            /\ UNCHANGED <<raised, outcome, pc>>
    /\ UNCHANGED <<query_vars, new_url, url_key, discovered_urls,
                   search_history, displayed, active_urls,
                   ghost_curation, n_saved, render_vars>>

ExtractStep(resp) ==
    /\ pc = "analyzing"
    /\ idx <= Len(active_urls)
    /\ LET r == analyze_product_prices(resp) IN
       IF r.raised
       THEN /\ raised' = TRUE
            /\ outcome' = "crashed"
            /\ pc' = "idle"
            /\ messages' = messages \cup {"uncaught exception"}
            /\ UNCHANGED <<idx, all_products, extracted>>
       ELSE /\ all_products' = Extend(all_products, r.products)
            /\ extracted' = Append(extracted,
                                   [url |-> active_urls[idx],
                                    response |-> resp,
                                    products |-> r.products])
            /\ idx' = idx + 1
            /\ messages' = messages \cup r.messages
            /\ UNCHANGED <<raised, outcome, pc>>
    /\ UNCHANGED <<query_vars, new_url, url_key, discovered_urls,
                   search_history, displayed, active_urls,
                   ghost_curation, n_saved, render_vars>>

\* The loop body with the service answering from the set responses.
Extract(responses) ==
    /\ pc = "analyzing"
    /\ idx <= Len(active_urls)
    /\ \E resp \in responses : ExtractStep(resp)

\* After the loop: "Analysis complete!", then the history.
FinishAnalysis ==
    /\ pc = "analyzing"
    /\ idx > Len(active_urls)
    /\ LET history_entry ==
               [timestamp |-> Timestamp,
                category |-> product_category,
                product_name |-> product_name,
                tech_spec |-> tech_spec,
                price_calc_objective |-> price_calc_objective,
                results |-> all_products]
           r == RecordRun(search_history, history_entry)
       IN  /\ search_history' = r.history
           /\ outcome' = r.outcome
           /\ messages' = messages \cup r.messages
    /\ n_saved' = IF all_products # <<>> THEN n_saved + 1 ELSE n_saved
    /\ pc' = "idle"
    /\ active_urls' = <<>>
    /\ idx' = 1
    /\ all_products' = <<>>
    /\ extracted' = <<>>
    /\ UNCHANGED <<query_vars, new_url, url_key, discovered_urls, displayed,
                   raised, ghost_curation, render_vars>>

\* ------------------------------------------------------------------------
\* Specifications.  The actions are the same in all of them; they differ in
\* the sets the environment (user and service) draws its inputs from.

\* Spec: every discovery response and every Add-URL input, with one query,
\* and a service that fails every extraction request.
OneQuery == {q \in Queries : q.objective = "none"}
FailingExtractions == {r \in ExtractionResponses : r.kind = "transport"}

Next ==
    \/ \E q \in OneQuery : SetQuery(q)
    \/ \E resp \in DiscoveryResponses : ClickDiscover(resp)
    \/ \E i \in Keys : ToggleCheckbox(i)
    \/ \E u \in URLs \cup {""} : TypeNewUrl(u)
    \/ ClickAddUrl
    \/ ClickAnalyze
    \/ Extract(FailingExtractions)
    \/ FinishAnalysis

Spec == Init /\ [][Next]_vars

\* SpecAnalysis: every extraction response, with a discovery that fails or
\* finds the same two pages, and a user who adds a page that is listed.
FewDiscoveries ==
    {r \in DiscoveryResponses : r.kind # "ok" \/ r.urls = <<"u1", "u2">>}

NextAnalysis ==
    \/ \E q \in Queries : SetQuery(q)
    \/ \E resp \in FewDiscoveries : ClickDiscover(resp)
    \/ \E i \in Keys : ToggleCheckbox(i)
    \/ \E u \in {"u1", ""} : TypeNewUrl(u)
    \/ ClickAddUrl
    \/ ClickAnalyze
    \/ Extract(ExtractionResponses)
    \/ FinishAnalysis

SpecAnalysis == Init /\ [][NextAnalysis]_vars

\* SpecParse: one extraction request of a running analysis, answered with
\* every response text of up to MaxTextLen tokens and some longer ones.
LongTexts ==
    { <<"w", "s", "[", "a", ",", "b", "]", "s", "w">>,
      <<"w", "P", "[", "a", ",", "b", "]", "}", "w">>,
      <<"w", "P", "s", "[", "s", "b", "s", "]", "s", "}">>,
      <<"[", "a", "]", "w", "[", "b", "]">>,
      <<"P", "[", "a", "]", "}", "w", "[", "b", "]">>,
      <<"[", "s", "a", "s", ",", "s", "b", "s", "]">> }

ParseTexts == SeqsUpTo(Tokens, MaxTextLen) \cup LongTexts

ParseResponses == {[kind |-> "ok", text |-> t] : t \in ParseTexts}

\* The state the Analyze handler is in when it enters its loop over the one
\* URL of a freshly discovered list.
InitParse ==
    /\ product_category = "c1"
    /\ product_name = "n1"
    /\ tech_spec = "s1"
    /\ price_calc_objective = "none"
    /\ new_url = ""
    /\ url_key = [i \in Keys |-> IF i = 1 THEN "on" ELSE "unset"]
    /\ discovered_urls = <<"u1">>
    /\ search_history = <<>>
    /\ displayed = <<"u1">>
    /\ pc = "analyzing"
    /\ active_urls = <<"u1">>
    /\ idx = 1
    /\ all_products = <<>>
    /\ outcome = "running"
    /\ messages = {}
    /\ raised = FALSE
    /\ store = <<[url |-> "u1", included |-> TRUE]>>
    /\ extracted = <<>>
    /\ n_saved = 0
    /\ secrets = "present"
    /\ page = PageFull
    /\ results_view = <<>>
    /\ history_view = <<>>

NextParse ==
    \/ Extract(ParseResponses)
    \/ FinishAnalysis

SpecParse == InitParse /\ [][NextParse]_vars

\* ------------------------------------------------------------------------
\* Response shapes, described independently of the parser.

Objects == {"a", "b"}

RECURSIVE Join(_)
Join(objs) ==
    IF objs = <<>> THEN <<>>
    ELSE IF Len(objs) = 1 THEN objs
    ELSE <<Head(objs), ",">> \o Join(Tail(objs))

\* the text of a JSON array of the objects objs
ArrayText(objs) == <<"[">> \o Join(objs) \o <<"]">>

\* the text of {"products": [objs]}
ProductsText(objs) == <<"P">> \o ArrayText(objs) \o <<"}">>

\* the records a response with these objects stands for
Records(objs) == [k \in 1..Len(objs) |-> <<objs[k]>>]

ObjectLists == SeqsUpTo(Objects, 3)

IsProse(t) == \A k \in 1..Len(t) : t[k] \in {"w", "s", ","}

\* The request of the loop has been answered: its text and what extract
\* returned for it.
Answered == pc = "analyzing" /\ Len(extracted) = 1
AnsweredText == extracted[1].response.text
Returned == extracted[1].products

ArrayTextOf == [objs \in ObjectLists |-> ArrayText(objs)]
ProductsTextOf == [objs \in ObjectLists |-> ProductsText(objs)]

\* a non-empty array of objects, or a products object holding one, sits at
\* positions i..j of the text
FragmentAt(t, i, j, objs) ==
    /\ objs # <<>>
    /\ 1 <= i /\ i <= j /\ j <= Len(t)
    /\ t[i] \in {"[", "P"} /\ t[j] \in {"]", "}"}
    /\ SubSeq(t, i, j) \in {ArrayTextOf[objs], ProductsTextOf[objs]}

\* ------------------------------------------------------------------------
\* Claims.

AnalysisStarted == outcome = "running"
ActiveComputed == outcome \in {"running", "no_urls"}

Excluded == {k \in 1..Len(store) : ~store[k].included}

\* C1.  When the user has excluded exactly one URL of a list of distinct
\* URLs, the active_urls of a starting analysis run are all other URLs of
\* the store, in order, without the excluded one.
C1_ExcludingOneKeepsTheOthers ==
    (AnalysisStarted /\ NoDuplicates(StoreUrls) /\ Cardinality(Excluded) = 1)
        => active_urls = StoreActive(store)

\* C5.  The list a successful discovery returns and stores has at most 20
\* elements and holds no URL twice.
C5_DiscoveredAtMostTopNAndUnique ==
    "Found relevant URLs" \in messages
        => /\ Len(displayed) <= TopN
           /\ NoDuplicates(displayed)
           /\ Len(discovered_urls) <= TopN
           /\ NoDuplicates(discovered_urls)

\* C6.  The candidate URL list holds each URL at most once, whatever was
\* discovered, added and excluded.
C6_CandidateListUnique == NoDuplicates(discovered_urls)

\* C8.  A discovery request that fails (transport, authentication, schema
\* validation) ends in: no uncaught exception, the error message shown, an
\* empty candidate list, and the discover button usable again.
DiscoveryFailures == {r \in DiscoveryResponses : r.kind # "ok"}

C8_DiscoveryFailureRecovered ==
    [][(\E resp \in DiscoveryFailures : ClickDiscover(resp))
          => /\ raised' = FALSE
             /\ "Error discovering URLs" \in messages'
             /\ discovered_urls' = <<>>
             /\ displayed' = <<>>
             /\ DiscoverEnabled']_vars

\* C8 witness: a failed discovery has left the error message, an empty list
\* and an enabled discover button.
C8_Witness ==
    /\ "Error discovering URLs" \in messages
    /\ discovered_urls = <<>>
    /\ raised = FALSE
    /\ DiscoverEnabled
    /\ store = <<>>

\* C10.  Whenever a run computes active_urls, it is the sequence of the
\* included URLs of the store: discovered URLs in discovery order, then the
\* added ones in the order of adding.
C10_ActiveIsIncludedSubsequence ==
    (ActiveComputed /\ NoDuplicates(StoreUrls))
        => active_urls = StoreActive(store)

\* ------------------------------------------------------------------------
\* Claims about the analysis run (specification SpecAnalysis).

\* What each response of SampleTexts stands for, stated apart from the
\* parser: a failed request, prose, and an empty list stand for no record.
ExpectedRecords(resp) ==
    IF resp.kind # "ok" THEN <<>>
    ELSE IF resp.text = <<"[", "a", ",", "b", "]">> THEN <<<<"a">>, <<"b">>>>
    ELSE IF resp.text = <<"w", "P", "[", "b", "]", "}">> THEN <<<<"b">>>>
    ELSE <<>>

LoopDone == pc = "analyzing" /\ idx > Len(active_urls)

\* C2.  No exception leaves extract or the run; while the loop runs, every
\* URL before the current one has been extracted, in list order, with the
\* records its response stands for (none for a failed or empty one), all of
\* them present in the aggregate; the loop ends only past the last URL.
C2_PartialFailureTolerant ==
    /\ raised = FALSE
    /\ outcome # "crashed"
    /\ pc = "analyzing" =>
        /\ Len(extracted) = idx - 1
        /\ idx <= Len(active_urls) + 1
        /\ \A k \in 1..Len(extracted) :
               /\ extracted[k].url = active_urls[k]
               /\ extracted[k].products = ExpectedRecords(extracted[k].response)
               /\ Range(extracted[k].products) \subseteq Range(all_products)

\* C2 witness: the loop is done over two URLs, the first request failed in
\* transport, the second returned records, and exactly these are the aggregate.
C2_Witness ==
    /\ LoopDone
    /\ Len(active_urls) = 2
    /\ extracted[1].response.kind = "transport"
    /\ extracted[2].products # <<>>
    /\ all_products = extracted[2].products
    /\ raised = FALSE

\* The entry the handler builds from the query widgets and the aggregate.
ExpectedEntry ==
    [timestamp |-> Timestamp,
     category |-> product_category,
     product_name |-> product_name,
     tech_spec |-> tech_spec,
     price_calc_objective |-> price_calc_objective,
     results |-> all_products]

\* C3.  The step that ends an analysis run appends the entry (timestamp,
\* query fields, aggregate) when the aggregate is non-empty; otherwise it
\* reports "no results" and leaves the history as it is.  No other step
\* changes the history.
C3_HistoryIffNonEmpty ==
    /\ [][(pc = "analyzing" /\ pc' = "idle")
            => IF all_products # <<>>
               THEN /\ search_history' = Append(search_history, ExpectedEntry)
                    /\ outcome' = "results"
               ELSE /\ search_history' = search_history
                    /\ outcome' = "no_results"
                    /\ "No products found matching your specifications."
                           \in messages']_vars
    /\ [][search_history' # search_history
            => LoopDone /\ all_products # <<>>]_vars

\* C3 witness: a run with an empty aggregate has ended after an entry had
\* been saved; the history still holds that one entry.
C3_Witness ==
    /\ outcome = "no_results"
    /\ Len(search_history) = 1
    /\ n_saved = 1

IsPrefix(s, t) == Len(s) <= Len(t) /\ SubSeq(t, 1, Len(s)) = s

\* C4.  The history is as long as the number of runs that ended with a
\* non-empty aggregate, and every step keeps all existing entries, unchanged
\* and in place.
C4_HistoryAppendOnly ==
    /\ [](Len(search_history) = n_saved)
    /\ [][IsPrefix(search_history, search_history')]_vars

\* C4 witness: two entries with different queries and results are in the
\* history, and a run without analysis has come after them.
C4_Witness ==
    /\ Len(search_history) = 2
    /\ search_history[1].results # search_history[2].results
    /\ search_history[1].product_name # search_history[2].product_name
    /\ outcome = "none"
    /\ discovered_urls = <<>>

\* C9.  Throughout the loop the aggregate is the concatenation, in the order
\* of active_urls, of what extract returned for each URL.
C9_AggregateIsConcatenation ==
    pc = "analyzing" =>
        /\ all_products = Flatten([k \in 1..Len(extracted) |-> extracted[k].products])
        /\ \A k \in 1..Len(extracted) : extracted[k].url = active_urls[k]

\* C9 witness: the loop is done over two URLs that returned different
\* records, two from the first and one from the second.
C9_Witness ==
    /\ LoopDone
    /\ Len(extracted) = 2
    /\ extracted[1].products = <<<<"a">>, <<"b">>>>
    /\ extracted[2].products = <<<<"b">>>>
    /\ all_products = <<<<"a">>, <<"b">>, <<"b">>>>


\* ------------------------------------------------------------------------
\* C14.  Every URL of a successful discovery is included by default: right
\* after a discovery that returned URLs, whatever was ticked or unticked on an
\* earlier list, the stored list is exactly what the discovery returned, and an
\* analysis started next, without any curation in between, runs over exactly
\* those URLs.
JustDiscovered == "Found relevant URLs" \in messages

C14_DiscoveredIncludedByDefault ==
    [][ /\ JustDiscovered' => discovered_urls' = StoreUrls'
        /\ (JustDiscovered /\ outcome' \in {"running", "no_urls"})
               => active_urls' = StoreUrls ]_vars


\* ------------------------------------------------------------------------
\* SpecAnalysisLive: SpecAnalysis with a script run that keeps running.  The
\* loop body and the end of the handler are plain sequential code, and every
\* request returns or raises: once enabled they are taken.
SpecAnalysisLive ==
    /\ SpecAnalysis
    /\ WF_vars(Extract(ExtractionResponses))
    /\ WF_vars(FinishAnalysis)

RequestedUrls == [k \in 1..Len(extracted) |-> extracted[k].url]

AnalysisComplete == pc = "idle" /\ "Analysis complete!" \in messages

\* C13.  An analysis run that has started over a non-empty active list issues
\* its requests one at a time in list order: the requests made so far are
\* always for the first URLs of active_urls, each step of the loop makes
\* exactly one request, for the next URL, whatever the previous one returned;
\* the run ends only when every active URL has had exactly one request; and
\* every run that has started reaches "Analysis complete!".
C13_OneRequestPerUrlThenComplete ==
    /\ [](pc = "analyzing" =>
            /\ active_urls # <<>>
            /\ Len(extracted) = idx - 1
            /\ Len(extracted) <= Len(active_urls)
            /\ RequestedUrls = SubSeq(active_urls, 1, Len(extracted)))
    /\ [][(pc = "analyzing" /\ pc' = "analyzing")
            => /\ active_urls' = active_urls
               /\ extracted' = Append(extracted, extracted'[Len(extracted')])
               /\ extracted'[Len(extracted')].url = active_urls[idx]]_vars
    /\ [][(pc = "analyzing" /\ pc' = "idle")
            => /\ RequestedUrls = active_urls
               /\ AnalysisComplete']_vars
    /\ (pc = "analyzing") ~> AnalysisComplete

\* C13 witness: the loop has ended over two URLs whose requests both failed,
\* the first for authentication and the second in transport, with one request
\* made for each.
C13_Witness ==
    /\ LoopDone
    /\ RequestedUrls = active_urls
    /\ Len(active_urls) = 2
    /\ extracted[1].response.kind = "auth"
    /\ extracted[2].response.kind = "transport"
    /\ all_products = <<>>


\* ------------------------------------------------------------------------
\* Startup.  Every run of the script begins with the page configuration, the
\* title and the description, and then looks for the key in the secrets; the
\* secrets are those of the running process and do not change under it.

RemediationMessage == "OpenAI API key not found in secrets."

\* The session before its first script run.
InitStartup ==
    /\ product_category = ""
    /\ product_name = ""
    /\ tech_spec = ""
    /\ price_calc_objective = "none"
    /\ new_url = ""
    /\ url_key = [i \in Keys |-> "unset"]
    /\ discovered_urls = <<>>
    /\ search_history = <<>>
    /\ displayed = <<>>
    /\ pc = "start"
    /\ active_urls = <<>>
    /\ idx = 1
    /\ all_products = <<>>
    /\ outcome = "none"
    /\ messages = {}
    /\ raised = FALSE
    /\ store = <<>>
    /\ extracted = <<>>
    /\ n_saved = 0
    /\ secrets \in {"present", "absent"}
    /\ page = <<>>
    /\ results_view = <<>>
    /\ history_view = <<>>

\* The first run of the script in a session.
Startup ==
    /\ pc = "start"
    /\ IF secrets = "absent"
       THEN /\ page' = PageHead \o <<RemediationMessage>>
            /\ messages' = {RemediationMessage}
            /\ pc' = "halted"            \* st.stop()
       ELSE /\ page' = PageFull
            /\ messages' = {}
            /\ pc' = "idle"
    /\ UNCHANGED <<query_vars, new_url, url_key, discovered_urls,
                   search_history, displayed, loop_vars, outcome, raised,
                   ghost_curation, n_saved, secrets, results_view,
                   history_view>>

\* The user reloads the page: a new session, with empty session state, under
\* the same secrets.
Reload ==
    /\ pc \in {"idle", "halted"}
    /\ product_category' = ""
    /\ product_name' = ""
    /\ tech_spec' = ""
    /\ price_calc_objective' = "none"
    /\ new_url' = ""
    /\ url_key' = [i \in Keys |-> "unset"]
    /\ discovered_urls' = <<>>
    /\ search_history' = <<>>
    /\ displayed' = <<>>
    /\ pc' = "start"
    /\ active_urls' = <<>>
    /\ idx' = 1
    /\ all_products' = <<>>
    /\ outcome' = "none"
    /\ messages' = {}
    /\ raised' = FALSE
    /\ store' = <<>>
    /\ extracted' = <<>>
    /\ n_saved' = 0
    /\ page' = <<>>
    /\ results_view' = <<>>
    /\ history_view' = <<>>
    /\ UNCHANGED secrets

NextStartup ==
    \/ Startup
    \/ Reload
    \/ NextAnalysis

SpecStartup == InitStartup /\ [][NextStartup]_vars

\* Without the key no run gets past the check: the session is never idle, so
\* no widget is drawn, no input changes anything, and no request is sent.
NoInputWithoutKey ==
    /\ [](secrets = "absent" => pc \in {"start", "halted"})
    /\ [][secrets = "absent"
            => UNCHANGED <<query_vars, new_url, url_key, discovered_urls,
                           displayed, search_history, loop_vars, outcome,
                           raised, ghost_curation, n_saved>>]_vars

\* C12.  When the key is absent the first run halts with the remediation
\* message before anything of the page is drawn (the message is all the halted
\* run has drawn), no input is accepted and no request is sent.
C12_HaltBeforeAnyUI ==
    /\ NoInputWithoutKey
    /\ [](pc = "halted" => page = <<RemediationMessage>>)


\* ------------------------------------------------------------------------
\* Display of the per-basis price.  A product is a JSON object: a function
\* from the names of the fields it carries to their values.

\* keys of price_calculation_options
Bases == {"none", "unit", "kg", "liter", "package"}

price_per_key(objective) == "price_per_" \o objective

PriceFields == {price_per_key(b) : b \in Bases \ {"none"}}

SamplePrice ==
    [f \in PriceFields |->
        CASE f = "price_per_unit" -> "0.10"
          [] f = "price_per_kg" -> "2.20"
          [] f = "price_per_liter" -> "3.30"
          [] f = "price_per_package" -> "4.40"]

UnitTypes == {"pill", "tablet"}

\* the products the service may return: any of the four per-basis prices,
\* with or without a unit type
\* (EUR stands for the euro sign of the source's format strings)
ProductRecords ==
    UNION { { [f \in D \cup U |-> IF f = "unit_type" THEN ut ELSE SamplePrice[f]]
              : ut \in UnitTypes }
            : D \in SUBSET PriceFields, U \in {{}, {"unit_type"}} }

\* display_results, the text added to a product's title (lines 286-300);
\* mutant first: the unit type, when the product has one, is used for every
\* basis.
TitlePriceUnitTypeFirst(product, objective) ==
    IF objective # "none"
    THEN IF price_per_key(objective) \in DOMAIN product
         THEN LET unit_display ==
                      IF "unit_type" \in DOMAIN product
                      THEN "/" \o product["unit_type"]
                      ELSE IF objective = "kg" THEN "/kg"
                      ELSE IF objective = "liter" THEN "/L"
                      ELSE IF objective = "package" THEN "/pkg"
                      ELSE ""
              IN  " (EUR " \o product[price_per_key(objective)]
                        \o unit_display \o ")"
         ELSE ""
    ELSE ""

TitlePrice(product, objective) ==
    IF objective # "none"
    THEN IF price_per_key(objective) \in DOMAIN product
         THEN LET unit_display ==
                      IF objective = "unit"
                           /\ "unit_type" \in DOMAIN product
                      THEN "/" \o product["unit_type"]
                      ELSE IF objective = "kg" THEN "/kg"
                      ELSE IF objective = "liter" THEN "/L"
                      ELSE IF objective = "package" THEN "/pkg"
                      ELSE ""
              IN  " (EUR " \o product[price_per_key(objective)]
                        \o unit_display \o ")"
         ELSE ""
    ELSE ""

\* display_results, the "Price per ..." line inside the expander (lines
\* 313-328): the text after the label, or nothing when the line is not drawn.
DetailPrice(product, objective) ==
    IF objective # "none"
    THEN IF price_per_key(objective) \in DOMAIN product
         THEN LET unit_display ==
                      IF objective = "unit"
                           /\ "unit_type" \in DOMAIN product
                      THEN "/" \o product["unit_type"]
                      ELSE IF objective = "kg" THEN "/kg"
                      ELSE IF objective = "liter" THEN "/L"
                      ELSE IF objective = "package" THEN "/pkg"
                      ELSE ""
              IN  " EUR " \o product[price_per_key(objective)]
                       \o unit_display
         ELSE ""
    ELSE ""

display_results(products, objective) ==
    [i \in 1..Len(products) |->
        [title |-> TitlePrice(products[i], objective),
         detail |-> DetailPrice(products[i], objective)]]

\* the history tab, the text added to a product's line (lines 510-525)
HistoryPrice(entry, product) ==
    IF "price_calc_objective" \in DOMAIN entry
         /\ entry["price_calc_objective"] # "none"
    THEN IF price_per_key(entry["price_calc_objective"]) \in DOMAIN product
         THEN LET unit_display ==
                      IF entry["price_calc_objective"] = "unit"
                           /\ "unit_type" \in DOMAIN product
                      THEN "/" \o product["unit_type"]
                      ELSE IF entry["price_calc_objective"] = "kg" THEN "/kg"
                      ELSE IF entry["price_calc_objective"] = "liter" THEN "/L"
                      ELSE IF entry["price_calc_objective"] = "package" THEN "/pkg"
                      ELSE ""
              IN  " (EUR " \o product[price_per_key(entry["price_calc_objective"])]
                        \o unit_display \o ")"
         ELSE ""
    ELSE ""

\* reversed(st.session_state.search_history)
Reversed(seq) == [i \in 1..Len(seq) |-> seq[Len(seq) + 1 - i]]

\* the history tab: for each entry, newest first, the lines of its results
HistoryTab(history) ==
    LET rev == Reversed(history) IN
    [i \in 1..Len(rev) |->
        [j \in 1..Len(rev[i].results) |-> HistoryPrice(rev[i], rev[i].results[j])]]


\* SpecDisplay: the end of an analysis run whose aggregate is not empty, from
\* the point where the entry has been appended to the history (line 399):
\* display_results draws the live results, then the history tab is drawn;
\* later runs draw the history tab again, under whatever basis is then
\* selected.
FullProduct ==
    [f \in PriceFields \cup {"unit_type"} |->
        IF f = "unit_type" THEN "piece" ELSE SamplePrice[f]]

ResultLists ==
    {<<p>> : p \in ProductRecords} \cup {<<p, FullProduct>> : p \in ProductRecords}

InitDisplay ==
    /\ product_category = "c1"
    /\ product_name = "n1"
    /\ tech_spec = "s1"
    /\ price_calc_objective \in Bases
    /\ new_url = ""
    /\ url_key = [i \in Keys |-> IF i = 1 THEN "on" ELSE "unset"]
    /\ discovered_urls = <<"u1">>
    /\ displayed = <<"u1">>
    /\ pc = "displaying"
    /\ active_urls = <<"u1">>
    /\ idx = 2
    /\ all_products \in ResultLists
    /\ search_history =
           <<[timestamp |-> Timestamp,
              category |-> product_category,
              product_name |-> product_name,
              tech_spec |-> tech_spec,
              price_calc_objective |-> price_calc_objective,
              results |-> all_products]>>
    /\ outcome = "results"
    /\ messages = {"Analysis complete!"}
    /\ raised = FALSE
    /\ store = <<[url |-> "u1", included |-> TRUE]>>
    /\ extracted = <<>>
    /\ n_saved = 1
    /\ secrets = "present"
    /\ page = PageFull
    /\ results_view = <<>>
    /\ history_view = <<>>

\* display_results(all_products, ...) at the end of the handler (line 402)
ShowResults ==
    /\ pc = "displaying"
    /\ results_view' = display_results(all_products, price_calc_objective)
    /\ pc' = "history_tab"
    /\ UNCHANGED <<query_vars, new_url, url_key, discovered_urls,
                   search_history, displayed, loop_vars, outcome, messages,
                   raised, ghost_curation, n_saved, secrets, page,
                   history_view>>

\* the history tab of the same run, which ends the run
ShowHistory ==
    /\ pc = "history_tab"
    /\ history_view' = HistoryTab(search_history)
    /\ pc' = "idle"
    /\ active_urls' = <<>>
    /\ idx' = 1
    /\ all_products' = <<>>
    /\ UNCHANGED <<query_vars, new_url, url_key, discovered_urls,
                   search_history, displayed, extracted, outcome, messages,
                   raised, ghost_curation, n_saved, secrets, page,
                   results_view>>

\* The user selects another basis: a run without analysis, which draws no
\* live results and draws the history tab again.
SelectBasis(b) ==
    /\ pc = "idle"
    /\ b # price_calc_objective
    /\ price_calc_objective' = b
    /\ results_view' = <<>>
    /\ history_view' = HistoryTab(search_history)
    /\ outcome' = "none"
    /\ messages' = {}
    /\ UNCHANGED <<product_category, product_name, tech_spec, new_url,
                   url_key, discovered_urls, search_history, displayed, pc,
                   loop_vars, raised, ghost_curation, n_saved, secrets, page>>

NextDisplay ==
    \/ ShowResults
    \/ ShowHistory
    \/ \E b \in Bases : SelectBasis(b)

SpecDisplay == InitDisplay /\ [][NextDisplay]_vars

\* What the claim says is shown for a product under a basis.
FixedSuffix == [b \in {"kg", "liter", "package"} |->
                   CASE b = "kg" -> "/kg" [] b = "liter" -> "/L"
                     [] b = "package" -> "/pkg"]

ShownAsClaimed(b, p, shown) ==
    /\ b = "none" => shown = ""
    /\ (b \in DOMAIN FixedSuffix /\ ("price_per_" \o b) \in DOMAIN p)
           => shown = " (EUR " \o p["price_per_" \o b] \o FixedSuffix[b] \o ")"
    /\ (b = "unit" /\ "price_per_unit" \in DOMAIN p /\ "unit_type" \in DOMAIN p)
           => shown = " (EUR " \o p["price_per_unit"] \o "/" \o p["unit_type"] \o ")"

ShownEntries == Reversed(search_history)

\* the list display_results was called with: the results of the newest entry
ShownProducts == search_history[Len(search_history)].results

\* C11.  In the live results and in the history, for every basis and every
\* product: under basis none no per-basis price is shown, whatever the product
\* holds; under kg, liter and package the price of the field price_per_<basis>
\* is shown with the suffix /kg, /L, /pkg whatever else the product holds;
\* under unit the price of price_per_unit is shown with "/" and the product's
\* unit type when it has one.  The history shows for a product of an entry
\* exactly what the live results showed for it under the run's basis.
C11_PriceBasisDisplay ==
    /\ Len(results_view) \in {0, Len(ShownProducts)}
    /\ \A i \in 1..Len(results_view) :
           /\ ShownAsClaimed(price_calc_objective, ShownProducts[i],
                             results_view[i].title)
           /\ results_view[i].title # "" <=> results_view[i].detail # ""
    /\ \A e \in 1..Len(history_view) :
           \A j \in 1..Len(history_view[e]) :
               ShownAsClaimed(ShownEntries[e].price_calc_objective,
                              ShownEntries[e].results[j], history_view[e][j])
    /\ (results_view # <<>> /\ history_view # <<>>)
           => history_view[1] = [i \in 1..Len(results_view) |-> results_view[i].title]

\* C11 witness: under basis unit a product with a unit price, a kg price and
\* the unit type pill has been shown with "/pill" in the live results and in
\* the history.
C11_Witness ==
    /\ pc = "idle"
    /\ price_calc_objective = "unit"
    /\ Len(results_view) = 1
    /\ results_view[1].title = " (EUR 0.10/pill)"
    /\ history_view = <<<<" (EUR 0.10/pill)">>>>
    /\ "price_per_kg" \in DOMAIN search_history[1].results[1]

====
